---- MODULE Spec2Model ----
(***************************************************************************)
(* The attestation nonce log of x/qgb/keeper/keeper_attestation.go.        *)
(*                                                                         *)
(* The keeper's methods are operators over a key-value store: each takes   *)
(* the store it is called on and yields the store as the call left it,     *)
(* whether it panicked, and what it returned.  The actions apply them to   *)
(* the state.  A panic aborts the enclosing state transition: the writes   *)
(* made before the panic (kept in `work`) are discarded and `store` stays  *)
(* as it was.                                                              *)
(*                                                                         *)
(* uint64 is modelled as 0 .. MaxUint64 with a small MaxUint64, so that    *)
(* the arithmetic of the nonce (LatestNonce + 1 wraps to 0) is kept.       *)
(***************************************************************************)
EXTENDS Integers, Sequences, FiniteSets, TLC

\* ------------------------------------------------------------------ bounds
\* Largest value of the model's uint64 (math.MaxUint64 in the program).
MaxUint64 == 5
\* Successful appends (emitted events) per behaviour.
MaxAppends == 4

\* uint64 arithmetic is modulo Modulus.
Modulus == MaxUint64 + 1
Nonces == 0 .. MaxUint64

\* Number of binary digits that hold every value of the model's uint64.
UintWidth == CHOOSE w \in 1 .. Modulus : 2 ^ w >= Modulus /\ 2 ^ (w - 1) < Modulus

\* ------------------------------------------------------ types.UInt64Bytes
\* Big-endian fixed-width encoding of an unsigned integer.
UInt64Bytes(n) ==
    [i \in 1 .. UintWidth |-> (n \div (2 ^ (UintWidth - i))) % 2]

RECURSIVE BigEndian(_, _)
BigEndian(b, acc) ==
    IF b = <<>> THEN acc ELSE BigEndian(Tail(b), 2 * acc + Head(b))

\* keeper.UInt64FromBytes: big-endian decoding.
UInt64FromBytes(b) == BigEndian(b, 0)

\* ------------------------------------------------------------- store keys
LatestAttestationtNonce == [prefix |-> "LatestAttestationNonce", suffix |-> <<>>]
LastPrunedAttestationNonce == [prefix |-> "LastPrunedAttestationNonce", suffix |-> <<>>]
AttestationRequestKey == "AttestationRequestKey"

\* types.GetAttestationKey: the attestation prefix followed by the nonce bytes.
GetAttestationKey(nonce) ==
    [prefix |-> AttestationRequestKey, suffix |-> UInt64Bytes(nonce)]

\* ------------------------------------------------------- the KVStore (sdk)
EmptyStore == [k \in {} |-> <<>>]
Has(s, k) == k \in DOMAIN s
Set(s, k, v) == [x \in (DOMAIN s) \cup {k} |-> IF x = k THEN v ELSE s[x]]
Delete(s, k) == [x \in (DOMAIN s) \ {k} |-> s[x]]
\* Get of an absent key is nil.
NilBytes == <<>>
Get(s, k) ==
    IF Has(s, k) THEN [nil |-> FALSE, bz |-> s[k]] ELSE [nil |-> TRUE, bz |-> NilBytes]

\* --------------------------------------------------- attestation requests
\* The variants registered with the codec, and one that is not.
AttestationTypes == {"Valset", "DataCommitment"}
UnregisteredType == "Unregistered"
AttestationRequests ==
    [type : AttestationTypes \cup {UnregisteredType}, nonce : Nonces]
NilAt == [type |-> "nil", nonce |-> -1]

TypeURL(t) == IF t = "Valset" THEN "/qgb.Valset" ELSE "/qgb.DataCommitment"

\* cdc.MarshalInterface: packs the request into an Any (type URL and
\* payload); fails on a type the codec does not know.
MarshalInterface(at) ==
    IF at.type \in AttestationTypes
    THEN [err |-> FALSE,
          bz |-> [typeUrl |-> TypeURL(at.type), value |-> UInt64Bytes(at.nonce)]]
    ELSE [err |-> TRUE, bz |-> [typeUrl |-> "", value |-> NilBytes]]

\* cdc.UnmarshalInterface: resolves the type URL and decodes the payload;
\* fails on an unknown type URL and on a payload of the wrong length.
UnmarshalInterface(bz) ==
    IF /\ \E t \in AttestationTypes : TypeURL(t) = bz.typeUrl
       /\ Len(bz.value) = UintWidth
    THEN [err |-> FALSE,
          at |-> [type |-> CHOOSE t \in AttestationTypes : TypeURL(t) = bz.typeUrl,
                  nonce |-> UInt64FromBytes(bz.value)]]
    ELSE [err |-> TRUE, at |-> NilAt]

\* ------------------------------------------------------- results of a call
\* status: "ok" or "panic"; msg: the panic message or returned error;
\* found/num/at: the returned values.
Result(s, status, msg, found, num, at) ==
    [store |-> s, status |-> status, msg |-> msg,
     found |-> found, num |-> num, at |-> at]
Ok(s) == Result(s, "ok", "", FALSE, -1, NilAt)
Panic(s, msg) == Result(s, "panic", msg, FALSE, -1, NilAt)
NoCall == [name |-> "none", at |-> NilAt, nonce |-> -1]

\* ------------------------------------------------------------- the keeper
\* CheckLatestAttestationNonce that returns the negation of Has.
CheckLatestAttestationNonce_Negated(s) == ~Has(s, LatestAttestationtNonce)

\* CheckLatestAttestationNonce: is the latest nonce declared in the store.
CheckLatestAttestationNonce(s) == Has(s, LatestAttestationtNonce)

\* GetLatestAttestationNonce that reads the last pruned nonce's key.
GetLatestAttestationNonce_LastPrunedKey(s) ==
    LET bytes == Get(s, LastPrunedAttestationNonce)
    IN  IF bytes.nil
        THEN Panic(s, "nil LatestAttestationNonce")
        ELSE Result(s, "ok", "", FALSE, UInt64FromBytes(bytes.bz), NilAt)

\* GetLatestAttestationNonce: panics when the key is absent.
GetLatestAttestationNonce(s) ==
    LET bytes == Get(s, LatestAttestationtNonce)
    IN  IF bytes.nil
        THEN Panic(s, "nil LatestAttestationNonce")
        ELSE Result(s, "ok", "", FALSE, UInt64FromBytes(bytes.bz), NilAt)

\* CheckLastPrunedAttestationNonce: as written, it looks the latest
\* attestation nonce key up, not the last pruned one.
CheckLastPrunedAttestationNonce(s) == Has(s, LatestAttestationtNonce)

\* GetLastPrunedAttestationNonce that reads an absent key as zero.
GetLastPrunedAttestationNonce_ZeroOnAbsent(s) ==
    LET bytes == Get(s, LastPrunedAttestationNonce)
    IN  IF bytes.nil
        THEN Result(s, "ok", "", FALSE, 0, NilAt)
        ELSE Result(s, "ok", "", FALSE, UInt64FromBytes(bytes.bz), NilAt)

\* GetLastPrunedAttestationNonce: panics when the key is absent.
GetLastPrunedAttestationNonce(s) ==
    LET bytes == Get(s, LastPrunedAttestationNonce)
    IN  IF bytes.nil
        THEN Panic(s, "nil last pruned attestation nonce")
        ELSE Result(s, "ok", "", FALSE, UInt64FromBytes(bytes.bz), NilAt)

\* SetLastPrunedAttestationNonce that writes under the latest nonce's key.
SetLastPrunedAttestationNonce_LatestKey(s, nonce) ==
    Ok(Set(s, LatestAttestationtNonce, UInt64Bytes(nonce)))

\* SetLastPrunedAttestationNonce that stores the nonce after the given one.
SetLastPrunedAttestationNonce_OffByOne(s, nonce) ==
    Ok(Set(s, LastPrunedAttestationNonce, UInt64Bytes((nonce + 1) % Modulus)))

\* SetLastPrunedAttestationNonce: unconditional.
SetLastPrunedAttestationNonce(s, nonce) ==
    Ok(Set(s, LastPrunedAttestationNonce, UInt64Bytes(nonce)))

\* StoreAttestation that derives the key from the nonce after the request's.
StoreAttestation_NextKey(s, at) ==
    LET key == GetAttestationKey((at.nonce + 1) % Modulus)
        m == MarshalInterface(at)
    IN  IF Has(s, key)
        THEN Panic(s, "trying to overwrite existing attestation request")
        ELSE IF m.err
        THEN Panic(s, "marshal error")
        ELSE Ok(Set(s, key, m.bz))

\* StoreAttestation without the check for an existing entry.
StoreAttestation_Overwrite(s, at) ==
    LET key == GetAttestationKey(at.nonce)
        m == MarshalInterface(at)
    IN  IF m.err THEN Panic(s, "marshal error") ELSE Ok(Set(s, key, m.bz))

\* StoreAttestation: panics when the key is taken or the request cannot be
\* marshalled, writes the entry otherwise.
StoreAttestation(s, at) ==
    LET key == GetAttestationKey(at.nonce)
        m == MarshalInterface(at)
    IN  IF Has(s, key)
        THEN Panic(s, "trying to overwrite existing attestation request")
        ELSE IF m.err
        THEN Panic(s, "marshal error")
        ELSE Ok(Set(s, key, m.bz))

\* SetLatestAttestationNonce without the check of the increment.
SetLatestAttestationNonce_NoCheck(s, nonce) ==
    Ok(Set(s, LatestAttestationtNonce, UInt64Bytes(nonce)))

\* SetLatestAttestationNonce that only asks the nonce to grow.
SetLatestAttestationNonce_AllowGaps(s, nonce) ==
    LET latest == GetLatestAttestationNonce(s)
    IN  IF CheckLatestAttestationNonce(s) /\ latest.status = "panic"
        THEN latest
        ELSE IF CheckLatestAttestationNonce(s) /\ latest.num >= nonce
        THEN Panic(s, "not incrementing latest attestation nonce correctly")
        ELSE Ok(Set(s, LatestAttestationtNonce, UInt64Bytes(nonce)))

\* SetLatestAttestationNonce: initialises the nonce when it is absent;
\* otherwise the new nonce has to be the stored one plus one (in uint64).
SetLatestAttestationNonce(s, nonce) ==
    LET latest == GetLatestAttestationNonce(s)
    IN  IF CheckLatestAttestationNonce(s) /\ latest.status = "panic"
        THEN latest
        ELSE IF /\ CheckLatestAttestationNonce(s)
                /\ (latest.num + 1) % Modulus # nonce
        THEN Panic(s, "not incrementing latest attestation nonce correctly")
        ELSE Ok(Set(s, LatestAttestationtNonce, UInt64Bytes(nonce)))

\* SetAttestationRequest: stores the request, then advances the latest
\* nonce; a panic of either call leaves the store as that call left it.
SetAttestationRequest(s, at) ==
    LET stored == StoreAttestation(s, at)
        latest == SetLatestAttestationNonce(stored.store, at.nonce)
    IN  IF stored.status = "panic" THEN stored ELSE latest

\* The event SetAttestationRequest emits on success.
AttestationRequestEvent(at) ==
    [type |-> "AttestationRequest", module |-> "qgb", nonce |-> at.nonce]

\* GetAttestationByNonce that reports an absent entry as a decode error.
GetAttestationByNonce_ErrOnAbsent(s, nonce) ==
    LET bz == Get(s, GetAttestationKey(nonce))
        u == UnmarshalInterface(bz.bz)
    IN  IF bz.nil \/ u.err
        THEN Result(s, "ok", "ErrUnmarshalllAttestation", FALSE, -1, NilAt)
        ELSE Result(s, "ok", "", TRUE, -1, u.at)

\* GetAttestationByNonce that swallows the decode error.
GetAttestationByNonce_NotFoundOnErr(s, nonce) ==
    LET bz == Get(s, GetAttestationKey(nonce))
        u == UnmarshalInterface(bz.bz)
    IN  IF bz.nil \/ u.err
        THEN Result(s, "ok", "", FALSE, -1, NilAt)
        ELSE Result(s, "ok", "", TRUE, -1, u.at)

\* GetAttestationByNonce: (nil, false, nil) when absent, the decode error
\* when the bytes cannot be unmarshalled, (at, true, nil) otherwise.
GetAttestationByNonce(s, nonce) ==
    LET bz == Get(s, GetAttestationKey(nonce))
        u == UnmarshalInterface(bz.bz)
    IN  IF bz.nil
        THEN Result(s, "ok", "", FALSE, -1, NilAt)
        ELSE IF u.err
        THEN Result(s, "ok", "ErrUnmarshalllAttestation", FALSE, -1, NilAt)
        ELSE Result(s, "ok", "", TRUE, -1, u.at)

\* DeleteAttestation that panics when there is no entry.
DeleteAttestation_PanicOnAbsent(s, nonce) ==
    LET key == GetAttestationKey(nonce)
    IN  IF ~Has(s, key) THEN Panic(s, "attestation not found") ELSE Ok(Delete(s, key))

\* DeleteAttestation that returns without deleting.
DeleteAttestation_NoOp(s, nonce) == Ok(s)

\* DeleteAttestation: removes the entry when there is one.
DeleteAttestation(s, nonce) ==
    LET key == GetAttestationKey(nonce)
    IN  IF ~Has(s, key) THEN Ok(s) ELSE Ok(Delete(s, key))

\* ----------------------------------------------------------------- pruning
\* DeleteAttestation for every nonce of lo .. hi, in order.
RECURSIVE DeleteRange(_, _, _)
DeleteRange(s, lo, hi) ==
    IF lo > hi THEN s ELSE DeleteRange(DeleteAttestation(s, lo).store, lo + 1, hi)

\* First nonce a pruning has to delete: the one after the last pruned
\* nonce, or 1 when nothing has been pruned yet.
PruneLower(s) ==
    IF Has(s, LastPrunedAttestationNonce)
    THEN GetLastPrunedAttestationNonce(s).num + 1
    ELSE 1

\* The pruning target is accepted when it is below the latest nonce and
\* advances the last pruned nonce.
PruneAccepts(s, target) ==
    /\ CheckLatestAttestationNonce(s)
    /\ target < GetLatestAttestationNonce(s).num
    /\ Has(s, LastPrunedAttestationNonce)
          => target > GetLastPrunedAttestationNonce(s).num

\* PruneUpTo: deletes [last pruned + 1, target], then advances the last
\* pruned nonce to target; a target that is not accepted changes nothing.
PruneUpTo(s, target) ==
    IF ~PruneAccepts(s, target)
    THEN Result(s, "rejected", "", FALSE, -1, NilAt)
    ELSE SetLastPrunedAttestationNonce(DeleteRange(s, PruneLower(s), target), target)

\* The enclosing state transition: the writes of a call that panicked are
\* discarded, those of a call that returned are kept.
Commit(s, r) == IF r.status = "panic" THEN s ELSE r.store

\* ------------------------------------------------------------------- state
VARIABLES
    store,      \* the module's KVStore
    events,     \* the events emitted so far
    op,         \* the last call: its name and arguments
    outcome,    \* what the last call returned, or that it panicked
    pre,        \* the store the last call started from
    work        \* the store as the last call left it (before any discard)

vars == <<store, events, op, outcome, pre, work>>

Outcome(r) ==
    [status |-> r.status, msg |-> r.msg, found |-> r.found,
     num |-> r.num, at |-> r.at]

Init ==
    /\ store = EmptyStore
    /\ events = <<>>
    /\ op = NoCall
    /\ outcome = Outcome(Ok(EmptyStore))
    /\ pre = EmptyStore
    /\ work = EmptyStore

\* A call of the keeper method `name` that produced r.
Call(name, at, nonce, r) ==
    /\ op' = [name |-> name, at |-> at, nonce |-> nonce]
    /\ outcome' = Outcome(r)
    /\ pre' = store
    /\ work' = r.store
    /\ store' = Commit(store, r)

\* Append of the log: SetAttestationRequest(at).
AppendCall(at) ==
    LET r == SetAttestationRequest(store, at)
    IN  /\ Len(events) < MaxAppends
        /\ Call("SetAttestationRequest", at, at.nonce, r)
        /\ events' = IF r.status = "ok"
                     THEN Append(events, AttestationRequestEvent(at))
                     ELSE events

Prune(target) ==
    /\ Call("PruneUpTo", NilAt, target, PruneUpTo(store, target))
    /\ UNCHANGED events

GetByNonce(nonce) ==
    /\ Call("GetAttestationByNonce", NilAt, nonce, GetAttestationByNonce(store, nonce))
    /\ UNCHANGED events

CheckLatest ==
    /\ Call("CheckLatestAttestationNonce", NilAt, -1,
            Result(store, "ok", "", CheckLatestAttestationNonce(store), -1, NilAt))
    /\ UNCHANGED events

GetLatest ==
    /\ Call("GetLatestAttestationNonce", NilAt, -1, GetLatestAttestationNonce(store))
    /\ UNCHANGED events

CheckLastPruned ==
    /\ Call("CheckLastPrunedAttestationNonce", NilAt, -1,
            Result(store, "ok", "", CheckLastPrunedAttestationNonce(store), -1, NilAt))
    /\ UNCHANGED events

GetLastPruned ==
    /\ Call("GetLastPrunedAttestationNonce", NilAt, -1, GetLastPrunedAttestationNonce(store))
    /\ UNCHANGED events

Next ==
    \/ \E at \in AttestationRequests : AppendCall(at)
    \/ \E target \in Nonces : Prune(target)
    \/ \E nonce \in Nonces : GetByNonce(nonce)
    \/ CheckLatest
    \/ GetLatest
    \/ CheckLastPruned
    \/ GetLastPruned

Spec == Init /\ [][Next]_vars

\* ================================================================== claims
StoredNonces(s) == {n \in Nonces : Has(s, GetAttestationKey(n))}
\* Nonces of the successful appends, in order.
AppendedNonce(i) == events[i].nonce
Appended == {AppendedNonce(i) : i \in 1 .. Len(events)}
IsAppend == op.name = "SetAttestationRequest"
Registered(at) == at.type \in AttestationTypes

C3_NoOverwrite ==
    /\ (IsAppend /\ Has(pre, GetAttestationKey(op.nonce)))
          => /\ outcome.status = "panic"
             /\ work = pre
             /\ store = pre
    /\ \A at \in AttestationRequests :
          Has(store, GetAttestationKey(at.nonce))
             => /\ StoreAttestation(store, at).status = "panic"
                /\ StoreAttestation(store, at).store = store
                /\ SetAttestationRequest(store, at).status = "panic"
                /\ SetAttestationRequest(store, at).store = store
    /\ \A n \in StoredNonces(pre) \cap StoredNonces(store) :
          store[GetAttestationKey(n)] = pre[GetAttestationKey(n)]
    /\ (IsAppend /\ outcome.status = "ok")
          => /\ GetAttestationByNonce(store, op.nonce).found
             /\ GetAttestationByNonce(store, op.nonce).at = op.at

\* A second append with a stored nonce and another payload.
C3_Witness ==
    /\ IsAppend
    /\ Has(pre, GetAttestationKey(op.nonce))
    /\ Registered(op.at)
    /\ GetAttestationByNonce(pre, op.nonce).at # op.at
    /\ outcome.status = "panic"
    /\ GetAttestationByNonce(store, op.nonce).at # op.at

LatestOf(s) == GetLatestAttestationNonce(s).num
LastPrunedOf(s) == GetLastPrunedAttestationNonce(s).num
IsPrune == op.name = "PruneUpTo"
\* What a caller of GetAttestationByNonce sees.
Lookup(s, n) == Outcome(GetAttestationByNonce(s, n))
NotFound == Outcome(Result(EmptyStore, "ok", "", FALSE, -1, NilAt))
\* The appended nonces have not wrapped past MaxUint64.
NotWrapped == \A i \in 2 .. Len(events) : AppendedNonce(i) > AppendedNonce(i - 1)

\* C4 (as stated): LatestNonce is never removed and never decreases, a
\* successful append moves it from n to exactly n + 1, and no other call of
\* the log changes it.
C4_LatestOnlyIncreases ==
    /\ CheckLatestAttestationNonce(pre)
          => /\ CheckLatestAttestationNonce(store)
             /\ LatestOf(store) >= LatestOf(pre)
    /\ (IsAppend /\ outcome.status = "ok" /\ CheckLatestAttestationNonce(pre))
          => LatestOf(store) = LatestOf(pre) + 1
    /\ ~IsAppend
          => Get(store, LatestAttestationtNonce) = Get(pre, LatestAttestationtNonce)

Kept ==
    {n \in Appended :
        \/ ~Has(store, LastPrunedAttestationNonce)
        \/ n > LastPrunedOf(store)
        \/ n = 0}

\* The range the stored nonces form while the nonce has not wrapped.
StoredRange ==
    LET first == AppendedNonce(1)
        lo == IF /\ Has(store, LastPrunedAttestationNonce)
                 /\ LastPrunedOf(store) + 1 > first
              THEN LastPrunedOf(store) + 1
              ELSE first
    IN  (lo .. LatestOf(store)) \cup (IF first = 0 THEN {0} ELSE {})

C7_LastPrunedBelowLatest ==
    /\ (Has(store, LatestAttestationtNonce) /\ Has(store, LastPrunedAttestationNonce))
          => /\ LastPrunedOf(store) < LatestOf(store)
             /\ Lookup(store, LatestOf(store)).found
    /\ (IsPrune /\ CheckLatestAttestationNonce(pre) /\ op.nonce >= LatestOf(pre))
          => /\ outcome.status = "rejected"
             /\ store = pre

\* C8 (as stated): CheckLastPrunedAttestationNonce is true exactly when a
\* last pruned nonce is stored, so GetLastPrunedAttestationNonce called
\* after a true check does not panic.
C8_CheckLastPrunedIsExistence ==
    /\ CheckLastPrunedAttestationNonce(store) <=> Has(store, LastPrunedAttestationNonce)
    /\ (op.name = "GetLastPrunedAttestationNonce" /\ CheckLastPrunedAttestationNonce(pre))
          => outcome.status = "ok"

\* C9: on the empty store both existence checks report false.
C9_FreshChecksFalse ==
    /\ store = EmptyStore
          => /\ ~CheckLatestAttestationNonce(store)
             /\ ~CheckLastPrunedAttestationNonce(store)
    /\ (/\ pre = EmptyStore
        /\ op.name \in {"CheckLatestAttestationNonce", "CheckLastPrunedAttestationNonce"})
          => /\ outcome.status = "ok"
             /\ ~outcome.found

C9_Witness ==
    /\ store = EmptyStore
    /\ events = <<>>
    /\ op.name = "CheckLastPrunedAttestationNonce"
    /\ outcome.status = "ok"
    /\ ~outcome.found

IsGetByNonce == op.name = "GetAttestationByNonce"

\* C11: GetAttestationByNonce of a nonce without a stored entry, pruned,
\* never appended or above LatestNonce alike, returns (nil, false, nil), does
\* not panic and leaves the store as it was.
C11_AbsentIsNotFound ==
    /\ (IsGetByNonce /\ ~Has(pre, GetAttestationKey(op.nonce)))
          => /\ outcome = NotFound
             /\ work = pre
             /\ store = pre
    /\ \A n \in Nonces \ StoredNonces(store) :
          /\ Lookup(store, n) = NotFound
          /\ GetAttestationByNonce(store, n).store = store

\* A lookup of a pruned nonce, in a state where a nonce above LatestNonce
\* was never appended and gives the same answer.
C11_Witness ==
    /\ IsGetByNonce
    /\ op.nonce \in Appended \ StoredNonces(store)
    /\ outcome = NotFound
    /\ NotWrapped
    /\ \E n \in Nonces \ Appended :
          n > LatestOf(store) /\ Lookup(store, n) = outcome

\* ------------------------------------------- lookups in a store of any bytes
\* Entries per store.
MaxDecodeEntries == 2

\* Bytes no registered variant encodes to: an unknown type URL, and a known
\* type URL with a truncated payload.
CorruptBytes ==
    {[typeUrl |-> "/qgb.Unknown", value |-> UInt64Bytes(0)],
     [typeUrl |-> TypeURL("Valset"), value |-> <<>>]}

\* What the entry of nonce n may hold: an encoding of a request with that
\* nonce, or corrupt bytes.
StoredBytes(n) ==
    {MarshalInterface([type |-> t, nonce |-> n]).bz : t \in AttestationTypes}
        \cup CorruptBytes

DecodeStores ==
    UNION {
        {f \in [{GetAttestationKey(n) : n \in S} ->
                    UNION {StoredBytes(n) : n \in S}] :
            \A n \in S : f[GetAttestationKey(n)] \in StoredBytes(n)} :
        S \in {T \in SUBSET Nonces : Cardinality(T) <= MaxDecodeEntries}}

DecodeInit ==
    /\ store \in DecodeStores
    /\ events = <<>>
    /\ op = NoCall
    /\ outcome = Outcome(Ok(EmptyStore))
    /\ pre = store
    /\ work = store

DecodeNext == \E nonce \in Nonces : GetByNonce(nonce)

SpecDecode == DecodeInit /\ [][DecodeNext]_vars

DecodeError == Outcome(Result(EmptyStore, "ok", "ErrUnmarshalllAttestation", FALSE, -1, NilAt))
Undecodable(s, n) ==
    Has(s, GetAttestationKey(n)) /\ UnmarshalInterface(s[GetAttestationKey(n)]).err

\* C12: when the bytes stored for a nonce cannot be decoded,
\* GetAttestationByNonce returns (nil, false, ErrUnmarshalllAttestation),
\* does not panic and leaves the store as it was; that result differs from
\* the found and the not found ones, and is returned in no other case.
C12_DecodeErrorIsDistinct ==
    /\ (IsGetByNonce /\ Undecodable(pre, op.nonce))
          => /\ outcome = DecodeError
             /\ outcome # NotFound
             /\ ~outcome.found
             /\ work = pre
             /\ store = pre
    /\ (IsGetByNonce /\ ~Undecodable(pre, op.nonce))
          => /\ outcome.status = "ok"
             /\ outcome.msg = ""
             /\ outcome.found = Has(pre, GetAttestationKey(op.nonce))

\* A lookup of corrupt bytes in a store that also holds a decodable entry.
C12_Witness ==
    /\ IsGetByNonce
    /\ Undecodable(store, op.nonce)
    /\ outcome = DecodeError
    /\ \E n \in Nonces : Lookup(store, n).found
    /\ \E n \in Nonces : Lookup(store, n) = NotFound

Found(at) == Outcome(Result(EmptyStore, "ok", "", TRUE, -1, at))

Panicked(r) == r.status = "panic" /\ r.num = -1

\* C14: GetLatestAttestationNonce and GetLastPrunedAttestationNonce called
\* while their key is absent panic; they return neither zero nor any other
\* value.
C14_AbsentCounterPanics ==
    /\ (op.name = "GetLatestAttestationNonce" /\ ~Has(pre, LatestAttestationtNonce))
          => Panicked(outcome) /\ outcome.msg = "nil LatestAttestationNonce"
    /\ (op.name = "GetLastPrunedAttestationNonce" /\ ~Has(pre, LastPrunedAttestationNonce))
          => Panicked(outcome) /\ outcome.msg = "nil last pruned attestation nonce"
    /\ ~Has(store, LatestAttestationtNonce)
          => Panicked(GetLatestAttestationNonce(store))
    /\ ~Has(store, LastPrunedAttestationNonce)
          => Panicked(GetLastPrunedAttestationNonce(store))

\* The last pruned nonce read after appends and before any pruning.
C14_Witness ==
    /\ op.name = "GetLastPrunedAttestationNonce"
    /\ Len(events) >= 1
    /\ ~Has(pre, LastPrunedAttestationNonce)
    /\ outcome.status = "panic"

\* --------------------------------------------- appends all around the uint64
\* One append more than there are nonces, of a single variant.
CycleAppends == Modulus + 1
CycleRequests == [type : {"Valset"}, nonce : Nonces]

CycleAppend(at) ==
    LET r == SetAttestationRequest(store, at)
    IN  /\ Len(events) < CycleAppends
        /\ Call("SetAttestationRequest", at, at.nonce, r)
        /\ events' = IF r.status = "ok"
                     THEN Append(events, AttestationRequestEvent(at))
                     ELSE events

CycleNext ==
    \/ \E at \in CycleRequests : CycleAppend(at)
    \/ \E target \in Nonces : Prune(target)
    \/ \E nonce \in Nonces : GetByNonce(nonce)

SpecCycle == Init /\ [][CycleNext]_vars

\* The nonces appended before the last call.
AppendedBefore ==
    IF IsAppend /\ outcome.status = "ok"
    THEN {AppendedNonce(i) : i \in 1 .. (Len(events) - 1)}
    ELSE Appended

\* C16 (as stated): a nonce that was appended and pruned is never found
\* again, and no later append with that nonce succeeds: no nonce is appended
\* twice.
C16_NonceNeverReused ==
    /\ \A i, k \in 1 .. Len(events) : i < k => AppendedNonce(i) # AppendedNonce(k)
    /\ \A j \in AppendedBefore :
          ~Has(pre, GetAttestationKey(j)) => Lookup(store, j) = NotFound

\* ------------------------------------------ the keeper's methods one by one
\* Keys a store holds when the methods are called directly.
MaxKeys == 3

Fits(r) == Cardinality(DOMAIN r.store) <= MaxKeys

\* The requests StoreAttestation is called with: one registered variant and
\* the unregistered one.
KeeperRequests == [type : {"DataCommitment", UnregisteredType}, nonce : Nonces]

StoreAttestationCall(at) ==
    /\ Fits(StoreAttestation(store, at))
    /\ Call("StoreAttestation", at, at.nonce, StoreAttestation(store, at))
    /\ UNCHANGED events

SetLatestCall(nonce) ==
    /\ Fits(SetLatestAttestationNonce(store, nonce))
    /\ Call("SetLatestAttestationNonce", NilAt, nonce,
            SetLatestAttestationNonce(store, nonce))
    /\ UNCHANGED events

SetLastPrunedCall(nonce) ==
    /\ Fits(SetLastPrunedAttestationNonce(store, nonce))
    /\ Call("SetLastPrunedAttestationNonce", NilAt, nonce,
            SetLastPrunedAttestationNonce(store, nonce))
    /\ UNCHANGED events

DeleteCall(nonce) ==
    /\ Call("DeleteAttestation", NilAt, nonce, DeleteAttestation(store, nonce))
    /\ UNCHANGED events

KeeperNext ==
    \/ \E at \in KeeperRequests : StoreAttestationCall(at)
    \/ \E nonce \in Nonces : SetLatestCall(nonce)
    \/ \E nonce \in Nonces : SetLastPrunedCall(nonce)
    \/ \E nonce \in Nonces : DeleteCall(nonce)

SpecKeeper == Init /\ [][KeeperNext]_vars

IsDelete == op.name = "DeleteAttestation"
\* The attestation entries of a store, by nonce.
Entries(s) == [n \in StoredNonces(s) |-> s[GetAttestationKey(n)]]
SameCounters(s, t) ==
    /\ Get(s, LatestAttestationtNonce) = Get(t, LatestAttestationtNonce)
    /\ Get(s, LastPrunedAttestationNonce) = Get(t, LastPrunedAttestationNonce)

\* C17: DeleteAttestation(n) returns without panic and removes the entry of
\* nonce n and nothing else: every other key, the two counters among them,
\* keeps its value, and when nonce n has no entry the store is unchanged.
C17_DeleteFrame ==
    /\ IsDelete
          => /\ outcome.status = "ok"
             /\ work = store
             /\ DOMAIN store = (DOMAIN pre) \ {GetAttestationKey(op.nonce)}
             /\ \A k \in DOMAIN store : store[k] = pre[k]
             /\ SameCounters(store, pre)
    /\ (IsDelete /\ ~Has(pre, GetAttestationKey(op.nonce))) => store = pre

\* A delete of a stored entry next to another entry and a counter.
C17_Witness ==
    /\ IsDelete
    /\ Has(pre, GetAttestationKey(op.nonce))
    /\ ~Has(store, GetAttestationKey(op.nonce))
    /\ StoredNonces(store) # {}
    /\ Has(store, LatestAttestationtNonce) \/ Has(store, LastPrunedAttestationNonce)

\* C18: the attestation keys and the two counter keys are pairwise distinct;
\* StoreAttestation and DeleteAttestation leave both counters as they were,
\* SetLatestAttestationNonce leaves the last pruned nonce and every entry as
\* they were, SetLastPrunedAttestationNonce the latest nonce and every entry.
C18_KeysDisjoint ==
    /\ LatestAttestationtNonce # LastPrunedAttestationNonce
    /\ \A n \in Nonces :
          /\ GetAttestationKey(n) \notin {LatestAttestationtNonce, LastPrunedAttestationNonce}
          /\ \A m \in Nonces : GetAttestationKey(n) = GetAttestationKey(m) => n = m
    /\ op.name \in {"StoreAttestation", "DeleteAttestation"}
          => SameCounters(work, pre) /\ SameCounters(store, pre)
    /\ op.name = "SetLatestAttestationNonce"
          => /\ Entries(work) = Entries(pre)
             /\ Get(work, LastPrunedAttestationNonce) = Get(pre, LastPrunedAttestationNonce)
    /\ op.name = "SetLastPrunedAttestationNonce"
          => /\ Entries(work) = Entries(pre)
             /\ Get(work, LatestAttestationtNonce) = Get(pre, LatestAttestationtNonce)
             /\ Get(work, LastPrunedAttestationNonce).bz = UInt64Bytes(op.nonce)

\* The last pruned nonce set in a store that holds an entry and the latest
\* nonce.
C18_Witness ==
    /\ op.name = "SetLastPrunedAttestationNonce"
    /\ outcome.status = "ok"
    /\ store # pre
    /\ StoredNonces(pre) # {}
    /\ Has(pre, LatestAttestationtNonce)

\* C19 (as stated): LatestNonce does not wrap: while it is the maximum
\* uint64 no append succeeds, and it never goes from the maximum to 0.
C19_NoWrap ==
    /\ (/\ IsAppend
        /\ CheckLatestAttestationNonce(pre)
        /\ LatestOf(pre) = MaxUint64)
          => outcome.status = "panic"
    /\ ~(/\ CheckLatestAttestationNonce(pre)
         /\ LatestOf(pre) = MaxUint64
         /\ CheckLatestAttestationNonce(store)
         /\ LatestOf(store) = 0)

====
